---- MODULE Spec2Model ----
(***************************************************************************)
(* Model of polysat's univariate bit-blasting solver                       *)
(* (src/math/polysat/univariate/univariate_solver.cpp).                    *)
(*                                                                         *)
(* The object univariate_bitblast_solver is modelled with its fields       *)
(* bit_width, m_scope_level, model_cache and the decision procedure s.     *)
(* A bit-vector expression over x is represented by its denotation: a      *)
(* function from the values of x to W-bit values; a Boolean expression by  *)
(* the set of values of x that satisfy it.                                 *)
(*                                                                         *)
(* SASSERT is modelled as checked (the assertion-enabled build): a failed  *)
(* assertion sets `failure` and the program stops.                         *)
(***************************************************************************)
EXTENDS Integers, Sequences, FiniteSets, TLC

VARIABLES
    bit_width,      \* constructor argument, fixed afterwards
    m_scope_level,  \* unsigned m_scope_level
    model_cache,    \* vector<rational> model_cache
    s,              \* the decision procedure: [frames, status]
    failure,        \* "none", or the assertion that failed (program aborted)
    pc,             \* "idle", or the extremal search whose loop is running
    k,              \* find_min/find_max: loop counter (bits still to process)
    val,            \* find_min/find_max: the out-parameter val
    call,           \* history: the last call of the caller [op, n, again]; again
                    \*   says that it is a model() directly after a model()
    ret,            \* history: what that call returned [ok, val, core]
    net_pushed,     \* history: push() executions minus the levels popped
    last_check,     \* history: result of the most recent check()
    supplied,       \* history: per scope, the (dep, formula) pairs asserted
    entry_level,    \* history: scope_level() at entry of the running search
    entry_supplied, \* history: `supplied` at entry of the search
    saw_unknown,    \* history: a nested check of the search was inconclusive
    entry_cache,    \* history: model_cache after the search's first model()
    nested_checks,  \* history: check() calls the search has made
    poly_p,         \* encoder harness: coefficient list given to mk_poly
    poly_k,         \* encoder harness: exponent of the power-of-two coefficient
    poly_e,         \* encoder harness: result of mk_poly
    term_e,         \* encoder harness: result of mk_poly_term
    arg             \* add_* harness: the arguments of the add_* call

vars == <<bit_width, m_scope_level, model_cache, s, failure, pc, k, val, call,
          ret, net_pushed, last_check, supplied, entry_level,
          entry_supplied, saw_unknown, entry_cache, nested_checks, poly_p, poly_k,
          poly_e, term_e, arg>>

(***************************************************************************)
(* Bounds of the model.                                                    *)
(***************************************************************************)
MaxWidth == 2       \* bit widths 1..MaxWidth
MaxLevel == 1       \* the caller pushes below this level, searches up to it
MaxFrames == 2      \* ... and with fewer (at most) cache frames than this
MaxAsserts == 2     \* the caller asserts while fewer assertions are in force
MaxDep == 2         \* caller dependency ids 1..MaxDep
MaxExp == 4         \* encoder harness: exponents k of 2^k in 0..MaxExp
MaxCoeffs == 3      \* encoder harness: coefficient lists up to this length

Invalid == -1       \* the cache's "no value" mark

Vals(w) == 0 .. (2^w - 1)
Deps == 1 .. MaxDep

(***************************************************************************)
(* Bit-vector terms (bv_util) as denotations.                              *)
(***************************************************************************)
x_expr(w) == [v \in Vals(w) |-> v]

mk_numeral(w, r) == [v \in Vals(w) |-> r % (2^w)]

mk_bv_mul(w, a, b) == [v \in Vals(w) |-> (a[v] * b[v]) % (2^w)]

mk_bv_add(w, a, b) == [v \in Vals(w) |-> (a[v] + b[v]) % (2^w)]

mk_bv_shl(w, a, b) ==
    [v \in Vals(w) |-> IF b[v] >= w THEN 0 ELSE (a[v] * 2^(b[v])) % (2^w)]

mk_ule(w, a, b) == {v \in Vals(w) : a[v] <= b[v]}

mk_bit2bool(w, a, idx) == {v \in Vals(w) : (a[v] \div (2^idx)) % 2 = 1}

mk_not(w, e) == Vals(w) \ e

mk_eq(w, a, b) == {v \in Vals(w) : a[v] = b[v]}

\* The signed reading of the w-bit value u.
signed(w, u) == IF u >= 2^(w - 1) THEN u - 2^w ELSE u

mk_bvumul_no_ovfl(w, a, b) == {v \in Vals(w) : a[v] * b[v] < 2^w}

mk_bvsmul_no_ovfl(w, a, b) ==
    {v \in Vals(w) : signed(w, a[v]) * signed(w, b[v]) < 2^(w - 1)}

mk_bvsmul_no_udfl(w, a, b) ==
    {v \in Vals(w) : signed(w, a[v]) * signed(w, b[v]) >= - (2^(w - 1))}

mk_bv_lshr(w, a, b) ==
    [v \in Vals(w) |-> IF b[v] >= w THEN 0 ELSE a[v] \div (2^(b[v]))]

mk_bv_ashr(w, a, b) ==
    [v \in Vals(w) |->
        LET n == IF b[v] >= w THEN w ELSE b[v]
            fill == IF a[v] >= 2^(w - 1) THEN 2^w - 2^(w - n) ELSE 0
        IN IF n = w THEN fill ELSE (a[v] \div (2^n)) + fill]

RECURSIVE bits_and(_, _, _)
bits_and(n, a, b) ==
    IF n = 0 THEN 0
    ELSE ((a % 2) * (b % 2)) + 2 * bits_and(n - 1, a \div 2, b \div 2)

RECURSIVE bits_or(_, _, _)
bits_or(n, a, b) ==
    IF n = 0 THEN 0
    ELSE (IF (a % 2) + (b % 2) > 0 THEN 1 ELSE 0)
           + 2 * bits_or(n - 1, a \div 2, b \div 2)

RECURSIVE bits_xor(_, _, _)
bits_xor(n, a, b) ==
    IF n = 0 THEN 0
    ELSE (((a % 2) + (b % 2)) % 2) + 2 * bits_xor(n - 1, a \div 2, b \div 2)

mk_bv_and(w, a, b) == [v \in Vals(w) |-> bits_and(w, a[v], b[v])]

mk_bv_or(w, a, b) == [v \in Vals(w) |-> bits_or(w, a[v], b[v])]

mk_bv_xor(w, a, b) == [v \in Vals(w) |-> bits_xor(w, a[v], b[v])]

mk_bv_not(w, a) == [v \in Vals(w) |-> 2^w - 1 - a[v]]

get_bit(r, idx) == (r \div (2^idx)) % 2 = 1

is_power_of_two(c) == c > 0 /\ \E j \in 0 .. c : 2^j = c

log2(c) == CHOOSE j \in 0 .. c : 2^j = c

(***************************************************************************)
(* Polynomial encoder.                                                     *)
(***************************************************************************)
mk_poly_term(w, coeff, xpow) ==
    IF is_power_of_two(coeff)
    THEN mk_bv_shl(w, xpow, mk_numeral(w, log2(coeff)))
    ELSE mk_bv_mul(w, mk_numeral(w, coeff), xpow)

RECURSIVE mk_poly_loop(_, _, _, _, _)
mk_poly_loop(w, p, i, e, xpow) ==
    IF i > Len(p) THEN e
    ELSE LET e1 == IF p[i] # 0
                   THEN mk_bv_add(w, e, mk_poly_term(w, p[i], xpow))
                   ELSE e
             xpow1 == IF i + 1 <= Len(p)
                      THEN mk_bv_mul(w, xpow, x_expr(w))
                      ELSE xpow
         IN mk_poly_loop(w, p, i + 1, e1, xpow1)

\* p is the 1-based coefficient sequence: p[i] here is p[i-1] of the source.
mk_poly(w, p) ==
    IF p = <<>> THEN mk_numeral(w, 0)
    ELSE mk_poly_loop(w, p, 2, mk_numeral(w, p[1]), x_expr(w))

(***************************************************************************)
(* The decision procedure s: an assertion stack of labelled formulas and   *)
(* the status left by the last check_sat ("none" after any change).        *)
(***************************************************************************)
s_new == [frames |-> <<{}>>, status |-> "none"]

s_push(sv) == [frames |-> Append(sv.frames, {}), status |-> "none"]

s_pop(sv, n) ==
    [frames |-> SubSeq(sv.frames, 1, Len(sv.frames) - n), status |-> "none"]

s_assert_expr(sv, e, a) ==
    [frames |-> [sv.frames EXCEPT ![Len(sv.frames)] = @ \cup {[lbl |-> a, fml |-> e]}],
     status |-> "none"]

InForce(sv) == UNION {sv.frames[i] : i \in 1 .. Len(sv.frames)}

Models(w, sv) == {v \in Vals(w) : \A a \in InForce(sv) : v \in a.fml}

\* check_sat answers sat or unsat correctly, or gives up.
s_check_sat(w, sv) ==
    {IF Models(w, sv) # {} THEN "sat" ELSE "unsat", "unknown"}

\* get_model: some model of the assertions after a sat answer, else no model.
s_get_model(w, sv) ==
    IF sv.status = "sat" THEN {{v} : v \in Models(w, sv)} ELSE {{}}

\* get_unsat_core: labels of some unsatisfiable subset after an unsat answer.
s_get_unsat_core(w, sv) ==
    IF sv.status = "unsat"
    THEN {c \in SUBSET {a.lbl : a \in InForce(sv)} :
            ~ \E v \in Vals(w) : \A a \in InForce(sv) : a.lbl \in c => v \in a.fml}
    ELSE {{}}

(***************************************************************************)
(* The solver object as a record, and its methods as functions on it.      *)
(* A method called after an assertion has failed does nothing.             *)
(***************************************************************************)
This ==
    [bit_width |-> bit_width, m_scope_level |-> m_scope_level,
     model_cache |-> model_cache, s |-> s, failure |-> failure,
     net_pushed |-> net_pushed, last_check |-> last_check,
     supplied |-> supplied]

Commit(t) ==
    /\ m_scope_level' = t.m_scope_level
    /\ model_cache' = t.model_cache
    /\ s' = t.s
    /\ failure' = t.failure
    /\ net_pushed' = t.net_pushed
    /\ last_check' = t.last_check
    /\ supplied' = t.supplied
    /\ UNCHANGED <<bit_width, poly_p, poly_k, poly_e, term_e, arg>>

Fail(t, why) == [t EXCEPT !.failure = why]

back(t) == t.model_cache[Len(t.model_cache)]

reset_cache(t) ==
    IF t.failure # "none" THEN t
    ELSE IF t.model_cache = <<>> THEN Fail(t, "back: !empty()")
    ELSE [t EXCEPT !.model_cache[Len(t.model_cache)] = Invalid]

push_cache(t) ==
    IF t.failure # "none" THEN t
    ELSE IF t.model_cache = <<>> THEN Fail(t, "back: !empty()")
    ELSE [t EXCEPT !.model_cache = Append(@, back(t))]

pop_cache(t) ==
    IF t.failure # "none" THEN t
    ELSE IF t.model_cache = <<>> THEN Fail(t, "pop_back: !empty()")
    ELSE [t EXCEPT !.model_cache = SubSeq(@, 1, Len(@) - 1)]

push(t) ==
    IF t.failure # "none" THEN t
    ELSE LET t1 == [t EXCEPT !.m_scope_level = @ + 1,
                             !.net_pushed = @ + 1,
                             !.supplied = Append(@, {})]
             t2 == push_cache(t1)
         IN IF t2.failure # "none" THEN t2
            ELSE [t2 EXCEPT !.s = s_push(@)]

\* pop(n) that leaves one level whatever n is.
pop_one_level(t, n) ==
    IF t.failure # "none" THEN t
    ELSE IF ~ (t.m_scope_level >= n) THEN Fail(t, "pop: scope_level() >= n")
    ELSE LET t1 == [t EXCEPT !.m_scope_level = @ - 1,
                             !.net_pushed = @ - n,
                             !.supplied = SubSeq(@, 1, Len(@) - n)]
             t2 == pop_cache(t1)
         IN IF t2.failure # "none" THEN t2
            ELSE [t2 EXCEPT !.s = s_pop(@, n)]

pop(t, n) ==
    IF t.failure # "none" THEN t
    ELSE IF ~ (t.m_scope_level >= n) THEN Fail(t, "pop: scope_level() >= n")
    ELSE LET t1 == [t EXCEPT !.m_scope_level = @ - n,
                             !.net_pushed = @ - n,
                             !.supplied = SubSeq(@, 1, Len(@) - n)]
             t2 == pop_cache(t1)
         IN IF t2.failure # "none" THEN t2
            ELSE [t2 EXCEPT !.s = s_pop(@, n)]

scope_level(t) == t.m_scope_level

\* add that labels every assertion with 0 instead of dep.
add_label_zero(t, e, sign, dep) ==
    LET t1 == reset_cache(t)
        e1 == IF sign THEN mk_not(t.bit_width, e) ELSE e
        a == <<"num", 0>>
    IN IF t1.failure # "none" THEN t1
       ELSE [t1 EXCEPT !.s = s_assert_expr(@, e1, a),
                       !.supplied[Len(t1.supplied)] = @ \cup {[dep |-> dep, fml |-> e1]}]

\* add without reset_cache().
add_keeps_cache(t, e, sign, dep) ==
    LET t1 == t
        e1 == IF sign THEN mk_not(t.bit_width, e) ELSE e
        a == <<"num", dep>>
    IN IF t1.failure # "none" THEN t1
       ELSE [t1 EXCEPT !.s = s_assert_expr(@, e1, a),
                       !.supplied[Len(t1.supplied)] = @ \cup {[dep |-> dep, fml |-> e1]}]

\* e is the formula, sign asks for its negation, dep labels it.
add(t, e, sign, dep) ==
    LET t1 == reset_cache(t)
        e1 == IF sign THEN mk_not(t.bit_width, e) ELSE e
        a == <<"num", dep>>
    IN IF t1.failure # "none" THEN t1
       ELSE [t1 EXCEPT !.s = s_assert_expr(@, e1, a),
                       !.supplied[Len(t1.supplied)] = @ \cup {[dep |-> dep, fml |-> e1]}]

add_ule(t, lhs, rhs, sign, dep) ==
    add(t, mk_ule(t.bit_width, mk_poly(t.bit_width, lhs), mk_poly(t.bit_width, rhs)),
        sign, dep)

\* add_umul_ovfl that hands the caller's sign on as it is.
add_umul_ovfl_sign_kept(t, lhs, rhs, sign, dep) ==
    add(t, mk_bvumul_no_ovfl(t.bit_width, mk_poly(t.bit_width, lhs),
                             mk_poly(t.bit_width, rhs)),
        sign, dep)

add_umul_ovfl(t, lhs, rhs, sign, dep) ==
    add(t, mk_bvumul_no_ovfl(t.bit_width, mk_poly(t.bit_width, lhs),
                             mk_poly(t.bit_width, rhs)),
        ~ sign, dep)

add_smul_ovfl(t, lhs, rhs, sign, dep) ==
    add(t, mk_bvsmul_no_ovfl(t.bit_width, mk_poly(t.bit_width, lhs),
                             mk_poly(t.bit_width, rhs)),
        ~ sign, dep)

add_smul_udfl(t, lhs, rhs, sign, dep) ==
    add(t, mk_bvsmul_no_udfl(t.bit_width, mk_poly(t.bit_width, lhs),
                             mk_poly(t.bit_width, rhs)),
        ~ sign, dep)

add_lshr(t, in1, in2, out, sign, dep) ==
    add(t, mk_eq(t.bit_width,
                 mk_bv_lshr(t.bit_width, mk_poly(t.bit_width, in1),
                            mk_poly(t.bit_width, in2)),
                 mk_poly(t.bit_width, out)),
        sign, dep)

add_ashr(t, in1, in2, out, sign, dep) ==
    add(t, mk_eq(t.bit_width,
                 mk_bv_ashr(t.bit_width, mk_poly(t.bit_width, in1),
                            mk_poly(t.bit_width, in2)),
                 mk_poly(t.bit_width, out)),
        sign, dep)

add_shl(t, in1, in2, out, sign, dep) ==
    add(t, mk_eq(t.bit_width,
                 mk_bv_shl(t.bit_width, mk_poly(t.bit_width, in1),
                           mk_poly(t.bit_width, in2)),
                 mk_poly(t.bit_width, out)),
        sign, dep)

add_and(t, in1, in2, out, sign, dep) ==
    add(t, mk_eq(t.bit_width,
                 mk_bv_and(t.bit_width, mk_poly(t.bit_width, in1),
                           mk_poly(t.bit_width, in2)),
                 mk_poly(t.bit_width, out)),
        sign, dep)

add_or(t, in1, in2, out, sign, dep) ==
    add(t, mk_eq(t.bit_width,
                 mk_bv_or(t.bit_width, mk_poly(t.bit_width, in1),
                          mk_poly(t.bit_width, in2)),
                 mk_poly(t.bit_width, out)),
        sign, dep)

add_xor(t, in1, in2, out, sign, dep) ==
    add(t, mk_eq(t.bit_width,
                 mk_bv_xor(t.bit_width, mk_poly(t.bit_width, in1),
                           mk_poly(t.bit_width, in2)),
                 mk_poly(t.bit_width, out)),
        sign, dep)

add_not(t, in, out, sign, dep) ==
    add(t, mk_eq(t.bit_width, mk_bv_not(t.bit_width, mk_poly(t.bit_width, in)),
                 mk_poly(t.bit_width, out)),
        sign, dep)

add_ule_const(t, v, sign, dep) ==
    add(t, mk_ule(t.bit_width, x_expr(t.bit_width), mk_numeral(t.bit_width, v)),
        sign, dep)

add_uge_const(t, v, sign, dep) ==
    add(t, mk_ule(t.bit_width, mk_numeral(t.bit_width, v), x_expr(t.bit_width)),
        sign, dep)

add_bit(t, idx, sign, dep) ==
    add(t, mk_bit2bool(t.bit_width, x_expr(t.bit_width), idx), sign, dep)

add_bit0(t, idx, dep) == add_bit(t, idx, TRUE, dep)

add_bit1(t, idx, dep) == add_bit(t, idx, FALSE, dep)

\* check() with the answer r the decision procedure gives.
check(t, r) ==
    IF t.failure # "none" THEN t
    ELSE [t EXCEPT !.s.status = r, !.last_check = r]

\* unsat_core() with the core the decision procedure hands out: the object
\* after the call, and the dependency ids returned.
unsat_core_deps(core) == {a[2] : a \in core}

unsat_core(t, core) ==
    IF t.failure # "none" THEN t
    ELSE IF ~ (Cardinality(unsat_core_deps(core)) > 0)
         THEN Fail(t, "unsat_core: deps.size() > 0")
    ELSE t

\* model() that does not keep the value it reads.
model_not_cached(t, mdl) ==
    IF t.failure # "none" THEN [t |-> t, v |-> 0]
    ELSE IF t.model_cache = <<>> THEN [t |-> Fail(t, "back: !empty()"), v |-> 0]
    ELSE IF back(t) < 0
         THEN IF mdl = {} THEN [t |-> Fail(t, "model: model"), v |-> 0]
              ELSE [t |-> t, v |-> CHOOSE v \in mdl : TRUE]
    ELSE [t |-> t, v |-> back(t)]

\* model() without SASSERT(model).
model_not_asserted(t, mdl) ==
    IF t.failure # "none" THEN [t |-> t, v |-> 0]
    ELSE IF t.model_cache = <<>> THEN [t |-> Fail(t, "back: !empty()"), v |-> 0]
    ELSE IF back(t) < 0
         THEN IF mdl = {} THEN [t |-> t, v |-> 0]
              ELSE LET p == CHOOSE v \in mdl : TRUE
                   IN [t |-> [t EXCEPT !.model_cache[Len(t.model_cache)] = p],
                       v |-> p]
    ELSE [t |-> t, v |-> back(t)]

\* model() with the model mdl ({} for none) the decision procedure hands out
\* if asked: the object after the call (t) and the value returned (v).
model(t, mdl) ==
    IF t.failure # "none" THEN [t |-> t, v |-> 0]
    ELSE IF t.model_cache = <<>> THEN [t |-> Fail(t, "back: !empty()"), v |-> 0]
    ELSE IF back(t) < 0
         THEN IF mdl = {} THEN [t |-> Fail(t, "model: model"), v |-> 0]
              ELSE LET p == CHOOSE v \in mdl : TRUE
                   IN [t |-> [t EXCEPT !.model_cache[Len(t.model_cache)] = p],
                       v |-> p]
    ELSE [t |-> t, v |-> back(t)]

(***************************************************************************)
(* Construction, and the calls of the caller.  A call is possible when no  *)
(* search is running and no assertion has failed.                          *)
(***************************************************************************)
NoRet == [ok |-> TRUE, val |-> 0, core |-> {}]

NoValue == [NoRet EXCEPT !.ok = FALSE]

\* No add_* call under observation.
NoArg == [lhs |-> <<>>, rhs |-> <<>>, out |-> <<>>, sign |-> FALSE, dep |-> 0]

Idle == pc = "idle" /\ failure = "none"

\* Inputs of the add_* calls.
AddPolys == {<<<<0, 1>>, <<1>>>>, <<<<1>>, <<0, 1>>>>}
AddConsts == {1}
AddSigns == {FALSE}
AddBits == {0}

Constructed ==
    /\ bit_width \in 1 .. MaxWidth
    /\ m_scope_level = 0
    /\ model_cache = <<Invalid>>
    /\ s = s_new
    /\ failure = "none"
    /\ pc = "idle"
    /\ k = 0
    /\ val = 0
    /\ call = [op |-> "new", n |-> 0, again |-> FALSE]
    /\ ret = NoRet
    /\ net_pushed = 0
    /\ last_check = "none"
    /\ supplied = <<{}>>
    /\ entry_level = 0
    /\ entry_supplied = <<>>
    /\ saw_unknown = FALSE
    /\ entry_cache = <<>>
    /\ nested_checks = 0

Init ==
    /\ Constructed
    /\ poly_p = <<>>
    /\ poly_k = 0
    /\ poly_e = <<>>
    /\ term_e = <<>>
    /\ arg = NoArg

\* The program has stopped in a failed assertion of call op: of the object
\* only the scope level is kept, nothing can be called any more.
Aborted(t, op, n) ==
    /\ failure' = t.failure
    /\ m_scope_level' = t.m_scope_level
    /\ net_pushed' = t.net_pushed
    /\ model_cache' = <<>>
    /\ s' = s_new
    /\ last_check' = "none"
    /\ supplied' = <<>>
    /\ pc' = "idle"
    /\ k' = 0
    /\ val' = 0
    /\ call' = [op |-> op, n |-> n, again |-> FALSE]
    /\ ret' = NoValue
    /\ entry_level' = 0
    /\ entry_supplied' = <<>>
    /\ saw_unknown' = FALSE
    /\ entry_cache' = <<>>
    /\ nested_checks' = 0
    /\ UNCHANGED <<bit_width, poly_p, poly_k, poly_e, term_e, arg>>

\* Call op(n) of the caller leaves the object t and returns r.
Return(t, op, n, r) ==
    IF t.failure # "none" THEN Aborted(t, op, n)
    ELSE /\ Commit(t)
         /\ call' = [op |-> op, n |-> n,
                     again |-> (op = "model" /\ call.op = "model")]
         /\ ret' = r
         /\ pc' = "idle"
         /\ k' = 0
         /\ val' = 0
         /\ entry_level' = 0
         /\ entry_supplied' = <<>>
         /\ saw_unknown' = FALSE
         /\ entry_cache' = <<>>
         /\ nested_checks' = 0

do_push ==
    /\ Idle
    /\ m_scope_level < MaxLevel /\ Len(model_cache) < MaxFrames
    /\ Return(push(This), "push", 0, NoRet)

do_pop ==
    /\ Idle
    /\ \E n \in 0 .. m_scope_level + 1 :
        Return(pop(This, n), "pop", n, NoRet)

do_add_ule ==
    /\ Idle
    /\ Cardinality(InForce(s)) < MaxAsserts
    /\ \E lr \in AddPolys, sign \in AddSigns, dep \in Deps :
        Return(add_ule(This, lr[1], lr[2], sign, dep), "add", 0, NoRet)

do_add_ule_const ==
    /\ Idle
    /\ Cardinality(InForce(s)) < MaxAsserts
    /\ \E v \in AddConsts, sign \in AddSigns, dep \in Deps :
        Return(add_ule_const(This, v, sign, dep), "add", 0, NoRet)

do_add_uge_const ==
    /\ Idle
    /\ Cardinality(InForce(s)) < MaxAsserts
    /\ \E v \in AddConsts, sign \in AddSigns, dep \in Deps :
        Return(add_uge_const(This, v, sign, dep), "add", 0, NoRet)

do_add_bit ==
    /\ Idle
    /\ Cardinality(InForce(s)) < MaxAsserts
    /\ \E idx \in AddBits, sign \in BOOLEAN, dep \in Deps :
        Return(add_bit(This, idx, sign, dep), "add", 0, NoRet)

do_check ==
    /\ Idle
    /\ \E r \in s_check_sat(bit_width, s) :
        Return(check(This, r), "check", 0, NoRet)

do_unsat_core ==
    /\ Idle
    /\ \E core \in s_get_unsat_core(bit_width, s) :
        Return(unsat_core(This, core), "unsat_core", 0,
               [NoRet EXCEPT !.core = unsat_core_deps(core)])

do_model ==
    /\ Idle
    /\ \E mdl \in s_get_model(bit_width, s) :
        LET m == model(This, mdl)
        IN Return(m.t, "model", 0, [NoRet EXCEPT !.val = m.v])

(***************************************************************************)
(* find_min and find_max, one action per part: the prologue (val =         *)
(* model(); push()), one iteration of the loop, and the epilogue           *)
(* (pop(1); return true).  No other call can run in between.               *)
(***************************************************************************)
find_begin(name) ==
    /\ Idle
    /\ m_scope_level <= MaxLevel /\ Len(model_cache) <= MaxFrames
    /\ \E mdl \in s_get_model(bit_width, s) :
        LET m == model(This, mdl)
            t2 == push(m.t)
        IN IF t2.failure # "none" THEN Aborted(t2, name, 0)
           ELSE /\ Commit(t2)
                /\ pc' = name
                /\ val' = m.v
                /\ k' = bit_width
                /\ call' = [op |-> name, n |-> 0,
                            again |-> (call.op \in {"find_min", "find_max"}
                                         /\ ret.ok)]
                /\ ret' = NoRet
                /\ entry_level' = m_scope_level
                /\ entry_supplied' = supplied
                /\ saw_unknown' = FALSE
                /\ entry_cache' = m.t.model_cache
                /\ nested_checks' = 0

\* An iteration that stays at its bit index.
find_next_same_bit(t, v, result) ==
    IF t.failure # "none" THEN Aborted(t, pc, 0)
    ELSE /\ Commit(t)
         /\ UNCHANGED <<call, entry_level, entry_supplied, entry_cache>>
         /\ nested_checks' = nested_checks + (IF result = "skip" THEN 0 ELSE 1)
         /\ IF result = "unknown"
            THEN /\ pc' = "idle" /\ k' = 0 /\ val' = 0
                 /\ ret' = [ok |-> FALSE, val |-> v, core |-> {}]
                 /\ saw_unknown' = TRUE
            ELSE /\ pc' = pc /\ k' = k /\ val' = v
                 /\ UNCHANGED <<ret, saw_unknown>>

\* An iteration that gives up when its nested check is unsat, too.
find_next_unsat_fails(t, v, result) ==
    IF t.failure # "none" THEN Aborted(t, pc, 0)
    ELSE /\ Commit(t)
         /\ UNCHANGED <<call, entry_level, entry_supplied, entry_cache>>
         /\ nested_checks' = nested_checks + (IF result = "skip" THEN 0 ELSE 1)
         /\ IF result \in {"unknown", "unsat"}
            THEN /\ pc' = "idle" /\ k' = 0 /\ val' = 0
                 /\ ret' = [ok |-> FALSE, val |-> v, core |-> {}]
                 /\ saw_unknown' = (result = "unknown")
            ELSE /\ pc' = pc /\ k' = k - 1 /\ val' = v
                 /\ UNCHANGED <<ret, saw_unknown>>

\* After one iteration: t is the object, v the new val, result the nested
\* check's answer ("skip" when the bit needs no check).
find_next(t, v, result) ==
    IF t.failure # "none" THEN Aborted(t, pc, 0)
    ELSE /\ Commit(t)
         /\ UNCHANGED <<call, entry_level, entry_supplied, entry_cache>>
         /\ nested_checks' = nested_checks + (IF result = "skip" THEN 0 ELSE 1)
         /\ IF result = "unknown"
            THEN /\ pc' = "idle" /\ k' = 0 /\ val' = 0
                 /\ ret' = [ok |-> FALSE, val |-> v, core |-> {}]
                 /\ saw_unknown' = TRUE
            ELSE /\ pc' = pc /\ k' = k - 1 /\ val' = v
                 /\ UNCHANGED <<ret, saw_unknown>>

\* The epilogue without its pop(1).
find_end_no_pop(name) ==
    /\ pc = name /\ failure = "none" /\ k = 0
    /\ LET t == This
       IN IF t.failure # "none" THEN Aborted(t, name, 0)
          ELSE /\ Commit(t)
               /\ pc' = "idle" /\ k' = 0 /\ val' = 0
               /\ ret' = [ok |-> TRUE, val |-> val, core |-> {}]
               /\ UNCHANGED <<call, entry_level, entry_supplied, saw_unknown,
                              entry_cache, nested_checks>>

find_end(name) ==
    /\ pc = name /\ failure = "none" /\ k = 0
    /\ LET t == pop(This, 1)
       IN IF t.failure # "none" THEN Aborted(t, name, 0)
          ELSE /\ Commit(t)
               /\ pc' = "idle" /\ k' = 0 /\ val' = 0
               /\ ret' = [ok |-> TRUE, val |-> val, core |-> {}]
               /\ UNCHANGED <<call, entry_level, entry_supplied, saw_unknown,
                              entry_cache, nested_checks>>

find_min_begin == find_begin("find_min")

\* An iteration that tries the bit at 1 in its nested scope.
find_min_iter_wrong_bit ==
    /\ pc = "find_min" /\ failure = "none" /\ k > 0
    /\ LET kk == k - 1
       IN IF ~ get_bit(val, kk)
          THEN find_next(add_bit0(This, kk, 0), val, "skip")
          ELSE LET t1 == add_bit1(push(This), kk, 0)
               IN \E result \in s_check_sat(bit_width, t1.s) :
                    LET t2 == check(t1, result)
                    IN \E mdl1 \in s_get_model(bit_width, t2.s) :
                         LET m1 == model(t2, mdl1)
                             t3 == IF result = "sat" THEN m1.t ELSE t2
                             t4 == IF result = "sat" /\ t3.failure = "none"
                                      /\ ~ (m1.v < val)
                                   THEN Fail(t3, "find_min: model() < val")
                                   ELSE t3
                         IN \E mdl2 \in s_get_model(bit_width, t4.s) :
                              LET m2 == model(t4, mdl2)
                                  t5 == IF result = "sat" THEN m2.t ELSE t4
                                  v == IF result = "sat" /\ t5.failure = "none"
                                       THEN m2.v ELSE val
                                  t6 == pop(t5, 1)
                                  t7 == IF result = "sat" THEN add_bit0(t6, kk, 0)
                                        ELSE IF result = "unsat" THEN add_bit1(t6, kk, 0)
                                        ELSE t6
                              IN find_next(t7, v, result)

find_min_iter ==
    /\ pc = "find_min" /\ failure = "none" /\ k > 0
    /\ LET kk == k - 1
       IN IF ~ get_bit(val, kk)
          THEN find_next(add_bit0(This, kk, 0), val, "skip")
          ELSE LET t1 == add_bit0(push(This), kk, 0)
               IN \E result \in s_check_sat(bit_width, t1.s) :
                    LET t2 == check(t1, result)
                    IN \E mdl1 \in s_get_model(bit_width, t2.s) :
                         LET m1 == model(t2, mdl1)
                             t3 == IF result = "sat" THEN m1.t ELSE t2
                             t4 == IF result = "sat" /\ t3.failure = "none"
                                      /\ ~ (m1.v < val)
                                   THEN Fail(t3, "find_min: model() < val")
                                   ELSE t3
                         IN \E mdl2 \in s_get_model(bit_width, t4.s) :
                              LET m2 == model(t4, mdl2)
                                  t5 == IF result = "sat" THEN m2.t ELSE t4
                                  v == IF result = "sat" /\ t5.failure = "none"
                                       THEN m2.v ELSE val
                                  t6 == pop(t5, 1)
                                  t7 == IF result = "sat" THEN add_bit0(t6, kk, 0)
                                        ELSE IF result = "unsat" THEN add_bit1(t6, kk, 0)
                                        ELSE t6
                              IN find_next(t7, v, result)

find_min_end == find_end("find_min")

find_max_begin == find_begin("find_max")

find_max_iter ==
    /\ pc = "find_max" /\ failure = "none" /\ k > 0
    /\ LET kk == k - 1
       IN IF get_bit(val, kk)
          THEN find_next(add_bit1(This, kk, 0), val, "skip")
          ELSE LET t1 == add_bit1(push(This), kk, 0)
               IN \E result \in s_check_sat(bit_width, t1.s) :
                    LET t2 == check(t1, result)
                    IN \E mdl1 \in s_get_model(bit_width, t2.s) :
                         LET m1 == model(t2, mdl1)
                             t3 == IF result = "sat" THEN m1.t ELSE t2
                             t4 == IF result = "sat" /\ t3.failure = "none"
                                      /\ ~ (m1.v > val)
                                   THEN Fail(t3, "find_max: model() > val")
                                   ELSE t3
                         IN \E mdl2 \in s_get_model(bit_width, t4.s) :
                              LET m2 == model(t4, mdl2)
                                  t5 == IF result = "sat" THEN m2.t ELSE t4
                                  v == IF result = "sat" /\ t5.failure = "none"
                                       THEN m2.v ELSE val
                                  t6 == pop(t5, 1)
                                  t7 == IF result = "sat" THEN add_bit1(t6, kk, 0)
                                        ELSE IF result = "unsat" THEN add_bit0(t6, kk, 0)
                                        ELSE t6
                              IN find_next(t7, v, result)

find_max_end == find_end("find_max")

Next ==
    \/ do_push
    \/ do_pop
    \/ do_add_ule
    \/ do_add_ule_const
    \/ do_add_uge_const
    \/ do_add_bit
    \/ do_check
    \/ do_unsat_core
    \/ do_model
    \/ find_min_begin
    \/ find_min_iter
    \/ find_min_end
    \/ find_max_begin
    \/ find_max_iter
    \/ find_max_end

Spec == Init /\ [][Next]_vars

(***************************************************************************)
(* The encoder on its own: a solver of some width is constructed, and      *)
(* mk_poly and mk_poly_term are applied to inputs drawn at the start.      *)
(* poly_e and term_e are <<>> until the encoder has produced them.         *)
(***************************************************************************)
Coeffs == (0 .. 3) \cup {2^j : j \in 0 .. MaxExp}

CoeffLists == UNION {[1 .. n -> Coeffs] : n \in 0 .. MaxCoeffs}

InitPoly ==
    /\ Constructed
    /\ poly_p \in CoeffLists
    /\ poly_k \in 0 .. MaxExp
    /\ poly_e = <<>>
    /\ term_e = <<>>
    /\ arg = NoArg

encode_poly ==
    /\ DOMAIN poly_e = {}
    /\ poly_e' = mk_poly(bit_width, poly_p)
    /\ UNCHANGED <<bit_width, m_scope_level, model_cache, s, failure, pc, k,
                   val, call, ret, net_pushed, last_check, supplied,
                   entry_level, entry_supplied, saw_unknown, entry_cache,
                   nested_checks, poly_p, poly_k,
                   term_e, arg>>

encode_term ==
    /\ DOMAIN term_e = {}
    /\ term_e' = mk_poly_term(bit_width, 2^poly_k, x_expr(bit_width))
    /\ UNCHANGED <<bit_width, m_scope_level, model_cache, s, failure, pc, k,
                   val, call, ret, net_pushed, last_check, supplied,
                   entry_level, entry_supplied, saw_unknown, entry_cache,
                   nested_checks, poly_p, poly_k,
                   poly_e, arg>>

NextPoly == encode_poly \/ encode_term

SpecPoly == InitPoly /\ [][NextPoly]_vars

(***************************************************************************)
(* The add_* operations, each called once with the arguments arg on an     *)
(* object that a caller has pushed, checked and read a model from.         *)
(***************************************************************************)
ArgPolys == {<<0, 1>>, <<1>>, <<3>>}

Args == [lhs : ArgPolys, rhs : ArgPolys, out : {<<0, 1>>, <<1>>},
         sign : BOOLEAN, dep : Deps]

InitAdd ==
    /\ Constructed
    /\ poly_p = <<>>
    /\ poly_k = 0
    /\ poly_e = <<>>
    /\ term_e = <<>>
    /\ arg \in Args

\* The call name(...) that leaves the object t is the first assertion made.
AddCall(t, name) ==
    /\ Idle
    /\ InForce(s) = {}
    /\ Return(t, name, 0, NoRet)

call_add_ule ==
    AddCall(add_ule(This, arg.lhs, arg.rhs, arg.sign, arg.dep), "add_ule")

call_add_umul_ovfl ==
    AddCall(add_umul_ovfl(This, arg.lhs, arg.rhs, arg.sign, arg.dep),
            "add_umul_ovfl")

call_add_smul_ovfl ==
    AddCall(add_smul_ovfl(This, arg.lhs, arg.rhs, arg.sign, arg.dep),
            "add_smul_ovfl")

call_add_smul_udfl ==
    AddCall(add_smul_udfl(This, arg.lhs, arg.rhs, arg.sign, arg.dep),
            "add_smul_udfl")

call_add_lshr ==
    AddCall(add_lshr(This, arg.lhs, arg.rhs, arg.out, arg.sign, arg.dep),
            "add_lshr")

call_add_ashr ==
    AddCall(add_ashr(This, arg.lhs, arg.rhs, arg.out, arg.sign, arg.dep),
            "add_ashr")

call_add_shl ==
    AddCall(add_shl(This, arg.lhs, arg.rhs, arg.out, arg.sign, arg.dep),
            "add_shl")

call_add_and ==
    AddCall(add_and(This, arg.lhs, arg.rhs, arg.out, arg.sign, arg.dep),
            "add_and")

call_add_or ==
    AddCall(add_or(This, arg.lhs, arg.rhs, arg.out, arg.sign, arg.dep),
            "add_or")

call_add_xor ==
    AddCall(add_xor(This, arg.lhs, arg.rhs, arg.out, arg.sign, arg.dep),
            "add_xor")

call_add_not ==
    AddCall(add_not(This, arg.lhs, arg.out, arg.sign, arg.dep), "add_not")

call_add_ule_const ==
    AddCall(add_ule_const(This, arg.rhs[1], arg.sign, arg.dep), "add_ule_const")

call_add_uge_const ==
    AddCall(add_uge_const(This, arg.lhs[1], arg.sign, arg.dep), "add_uge_const")

call_add_bit ==
    AddCall(add_bit(This, 0, arg.sign, arg.dep), "add_bit")

NextAdd ==
    \/ do_push
    \/ do_check
    \/ do_model
    \/ call_add_ule
    \/ call_add_umul_ovfl
    \/ call_add_smul_ovfl
    \/ call_add_smul_udfl
    \/ call_add_lshr
    \/ call_add_ashr
    \/ call_add_shl
    \/ call_add_and
    \/ call_add_or
    \/ call_add_xor
    \/ call_add_not
    \/ call_add_ule_const
    \/ call_add_uge_const
    \/ call_add_bit

SpecAdd == InitAdd /\ [][NextAdd]_vars

(***************************************************************************)
(* Properties.                                                             *)
(***************************************************************************)
Searches == {"find_min", "find_max"}

\* The call named last has returned (it neither runs nor has aborted).
Returned(ops) == pc = "idle" /\ failure = "none" /\ call.op \in ops

AllOf(frames) == UNION {frames[i] : i \in 1 .. Len(frames)}

Satisfying(w, asserts) == {v \in Vals(w) : \A a \in asserts : v \in a.fml}

\* The values that satisfy what the caller has asserted and not popped.
NowModels == Satisfying(bit_width, AllOf(supplied))

\* ... and what was so asserted when the last search was entered.
EntryModels == Satisfying(bit_width, AllOf(entry_supplied))

Least(S) == CHOOSE m \in S : \A o \in S : m <= o

Greatest(S) == CHOOSE m \in S : \A o \in S : m >= o

RECURSIVE PolyValue(_, _, _)
PolyValue(p, i, v) ==
    IF i > Len(p) THEN 0 ELSE p[i] + v * PolyValue(p, i + 1, v)

\* C1: a search none of whose nested checks was inconclusive, entered with a
\* satisfiable set of assertions, returns true with the least (find_min)
\* or greatest (find_max) value satisfying the assertions in force at entry.
C1_ReturnsExtremum ==
    (Returned(Searches) /\ ~ saw_unknown /\ EntryModels # {}) =>
        /\ ret.ok
        /\ ret.val = IF call.op = "find_min" THEN Least(EntryModels)
                     ELSE Greatest(EntryModels)

\* C2: when find_min or find_max returns, with success or with failure,
\* scope_level() is what it was at entry.
C2_ScopeLevelRestored ==
    Returned(Searches) => m_scope_level = entry_level

\* C3 (as claimed): after a successful search the assertions in force pin
\* x: the returned value is the only value satisfying them.
C3_PinnedToExtremum ==
    (Returned(Searches) /\ ret.ok) => Models(bit_width, s) = {ret.val}

\* C3 (amended): after a successful search the scope level and the
\* assertions in force are those of entry; the bit assertions of the search
\* have been discarded by its final pop(1).
C3_AssertionsAsAtEntry ==
    (Returned(Searches) /\ ret.ok) =>
        /\ m_scope_level = entry_level
        /\ Len(s.frames) = Len(entry_supplied)
        /\ \A i \in 1 .. Len(s.frames) :
             {<<a.lbl[2], a.fml>> : a \in s.frames[i]}
               = {<<b.dep, b.fml>> : b \in entry_supplied[i]}

\* A successful search that had to assert bits, after which x is not pinned.
C3_Witness ==
    /\ Returned(Searches) /\ ret.ok
    /\ bit_width = 2
    /\ Cardinality(Models(bit_width, s)) > 1
    /\ AllOf(entry_supplied) # {}

\* C4: a valid cache entry of the current level satisfies every assertion
\* in force, and so does any value model() returns.
C4_CacheSatisfiesAssertions ==
    /\ (failure = "none" /\ pc = "idle" /\ model_cache # <<>>
          /\ model_cache[Len(model_cache)] >= 0)
         => model_cache[Len(model_cache)] \in NowModels
    /\ Returned({"model"}) => ret.val \in NowModels

\* C5: scope_level() is the number of push() executions minus the levels
\* popped and never negative; pop(n) with n above the level is rejected by
\* the assertion and leaves the level alone.
C5_ScopeLevelCounts ==
    /\ m_scope_level = net_pushed
    /\ [][/\ m_scope_level' = net_pushed'
          /\ m_scope_level' >= 0
          /\ (call'.op = "pop" /\ call'.n > m_scope_level)
               => /\ failure' = "pop: scope_level() >= n"
                  /\ m_scope_level' = m_scope_level]_vars

\* A pop(1) that returned to level 0.
C5_Witness ==
    Returned({"pop"}) /\ call.n = 1 /\ m_scope_level = 0

\* C6: the dependency ids unsat_core() returns are not none, each was
\* supplied with an assertion still in force, and the assertions carrying
\* them are unsatisfiable together.
C6_CoreOfAssertionsInForce ==
    Returned({"unsat_core"}) =>
        /\ ret.core # {}
        /\ ret.core \subseteq {b.dep : b \in AllOf(supplied)}
        /\ Satisfying(bit_width, {b \in AllOf(supplied) : b.dep \in ret.core}) = {}

\* A core of two caller assertions, each satisfiable alone.
C6_Witness ==
    /\ Returned({"unsat_core"})
    /\ ret.core = {1, 2}
    /\ \A b \in AllOf(supplied) : b.fml # {}

\* C7: what mk_poly builds evaluates, at every value v of x, to
\* (c0 + c1*v + ... + cn*v^n) mod 2^W.
C7_PolyEvaluates ==
    DOMAIN poly_e # {} =>
        \A v \in Vals(bit_width) :
            poly_e[v] = PolyValue(poly_p, 1, v) % (2^bit_width)

\* C8: for the coefficient 2^k, the shift that mk_poly_term builds yields
\* (2^k * p) mod 2^W for every W-bit value p of the power of x.
C8_ShiftIsMultiply ==
    DOMAIN term_e # {} =>
        \A p \in Vals(bit_width) :
            term_e[p] = (2^poly_k * p) % (2^bit_width)

\* C9: a model() directly after a model() returns the same value.
C9_ModelRepeats ==
    [][(call'.op = "model" /\ call'.again /\ failure' = "none")
         => ret'.val = ret.val]_vars

\* A second model() in a row has returned.
C9_Witness ==
    Returned({"model"}) /\ call.again

\* C10 (as claimed): a model() made when the most recent check() did not
\* return sat does not return.
C10_FailsWithoutSat ==
    (call.op = "model" /\ last_check # "sat") => failure # "none"

\* C10 (amended): a model() made when the most recent check() did not
\* return sat fails in SASSERT(model) if the cache entry of the current
\* level is invalid, and returns that entry if it is valid.
C10_FailsUnlessCached ==
    [][(call'.op = "model" /\ last_check # "sat" /\ model_cache # <<>>)
         => IF model_cache[Len(model_cache)] >= 0
            THEN failure' = "none" /\ ret'.val = model_cache[Len(model_cache)]
            ELSE failure' = "model: model"]_vars

\* A model() without a sat answer has failed in SASSERT(model).
C10_Witness ==
    call.op = "model" /\ failure = "model: model"

\* C11: the model cache holds one frame per scope level plus one, and is
\* never empty: pop(n) has discarded n frames.
C11_OneFramePerLevel ==
    (pc = "idle" /\ failure = "none") =>
        /\ model_cache # <<>>
        /\ Len(model_cache) = m_scope_level + 1

\* C12: a pop(n) with 1 <= n <= level, made when the cache holds one frame
\* per level, leaves on top of the cache the entry of the level returned to.
C12_PopRestoresEntry ==
    [][(/\ call'.op = "pop" /\ call'.n >= 1
        /\ failure = "none" /\ failure' = "none"
        /\ Len(model_cache) = m_scope_level + 1)
         => /\ model_cache' # <<>>
            /\ model_cache'[Len(model_cache')] = model_cache[m_scope_level' + 1]]_vars

\* The values of the polynomials a call of the add_* harness was given.
ArgValue(p) == [v \in Vals(bit_width) |-> PolyValue(p, 1, v) % (2^bit_width)]

OvflCalls == {"add_umul_ovfl", "add_smul_ovfl", "add_smul_udfl"}

AddCalls ==
    OvflCalls \cup {"add_ule", "add_lshr", "add_ashr", "add_shl", "add_and",
                    "add_or", "add_xor", "add_not", "add_ule_const",
                    "add_uge_const", "add_bit"}

\* The base formula of the call op made with the arguments arg.
BaseFormula(op) ==
    LET w == bit_width
        lhs == ArgValue(arg.lhs)
        rhs == ArgValue(arg.rhs)
        out == ArgValue(arg.out)
        x == x_expr(w)
    IN CASE op = "add_umul_ovfl" -> {v \in Vals(w) : lhs[v] * rhs[v] <= 2^w - 1}
         [] op = "add_smul_ovfl" ->
              {v \in Vals(w) : signed(w, lhs[v]) * signed(w, rhs[v]) <= 2^(w - 1) - 1}
         [] op = "add_smul_udfl" ->
              {v \in Vals(w) : signed(w, lhs[v]) * signed(w, rhs[v]) >= - (2^(w - 1))}
         [] op = "add_ule" -> {v \in Vals(w) : lhs[v] <= rhs[v]}
         [] op = "add_lshr" -> mk_eq(w, mk_bv_lshr(w, lhs, rhs), out)
         [] op = "add_ashr" -> mk_eq(w, mk_bv_ashr(w, lhs, rhs), out)
         [] op = "add_shl" -> mk_eq(w, mk_bv_shl(w, lhs, rhs), out)
         [] op = "add_and" -> mk_eq(w, mk_bv_and(w, lhs, rhs), out)
         [] op = "add_or" -> mk_eq(w, mk_bv_or(w, lhs, rhs), out)
         [] op = "add_xor" -> mk_eq(w, mk_bv_xor(w, lhs, rhs), out)
         [] op = "add_not" -> mk_eq(w, mk_bv_not(w, lhs), out)
         [] op = "add_ule_const" -> {v \in Vals(w) : v <= arg.rhs[1] % (2^w)}
         [] op = "add_uge_const" -> {v \in Vals(w) : arg.lhs[1] % (2^w) <= v}
         [] op = "add_bit" -> {v \in Vals(w) : v % 2 = 1}

\* C13: add_umul_ovfl, add_smul_ovfl and add_smul_udfl assert the "no
\* overflow" ("no underflow") formula when sign is true and its negation
\* when sign is false; every other add_* asserts its formula when sign is
\* false and the negation when sign is true; the label is dep.
C13_SignOfAssertion ==
    (failure = "none" /\ call.op \in AddCalls) =>
        LET base == BaseFormula(call.op)
            negated == IF call.op \in OvflCalls THEN ~ arg.sign ELSE arg.sign
        IN InForce(s) =
             {[lbl |-> <<"num", arg.dep>>,
               fml |-> IF negated THEN Vals(bit_width) \ base ELSE base]}

\* add_umul_ovfl(x, x, sign = false) at width 2 has asserted that x * x
\* overflows, which 2 and 3 satisfy.
C13_Witness ==
    /\ failure = "none" /\ call.op = "add_umul_ovfl"
    /\ bit_width = 2 /\ ~ arg.sign
    /\ arg.lhs = <<0, 1>> /\ arg.rhs = <<0, 1>>
    /\ \E a \in InForce(s) : a.fml = {2, 3}

\* After a successful search the assertions in force, in the object's
\* history and in the decision procedure, and the model cache are those of
\* the moment after the search's first model().
SearchLeftNoTrace ==
    (Returned(Searches) /\ ret.ok) =>
        /\ supplied = entry_supplied
        /\ Len(s.frames) = Len(entry_supplied)
        /\ \A i \in 1 .. Len(s.frames) :
             {<<a.lbl[2], a.fml>> : a \in s.frames[i]}
               = {<<b.dep, b.fml>> : b \in entry_supplied[i]}
        /\ model_cache = entry_cache

\* A search made directly after a successful search, with no inconclusive
\* nested check, returns the extremum of the assertions in force.
SearchAfterSearchExtremal ==
    (Returned(Searches) /\ call.again /\ ~ saw_unknown) =>
        /\ ret.ok
        /\ EntryModels # {}
        /\ ret.val = IF call.op = "find_min" THEN Least(EntryModels)
                     ELSE Greatest(EntryModels)

\* C14: a successful find_min or find_max leaves the assertions in force
\* and the cache entry of the entry level as they were after its first
\* model(), and a search that follows it at the same level returns the
\* true extremum of the assertions.
C14_SearchRepeatable ==
    SearchLeftNoTrace /\ SearchAfterSearchExtremal

\* C15: at the end of every iteration of a search, the last one included,
\* the assertions in force (those of entry and the single-bit assertions
\* forced so far) are satisfiable and the current best value satisfies them.
C15_BestValueIsModel ==
    (pc \in Searches /\ failure = "none" /\ k < bit_width) =>
        /\ Models(bit_width, s) # {}
        /\ val \in Models(bit_width, s)

\* C16: the assertions SASSERT(model() < val) of find_min and
\* SASSERT(model() > val) of find_max never fail: the model read after a
\* nested check that returned sat is strictly better than the best value.
C16_ModelStrictlyBetter ==
    failure \notin {"find_min: model() < val", "find_max: model() > val"}

\* find_min has returned a value below the one it started from, so a
\* nested check returned sat and the assertion was evaluated.
C16_Witness ==
    /\ Returned({"find_min"}) /\ ret.ok
    /\ model_cache # <<>>
    /\ ret.val < model_cache[Len(model_cache)]

\* The single-bit assertions a running search has made in its own scope.
SearchBits == supplied[Len(supplied)]

\* C17: a search handles the bit indices W-1 down to 0 once each and then
\* ends: the index left to handle is between 0 and W, and every step ends
\* the search or moves to the next lower index, with at most one nested
\* check and at most one bit assertion in the scope of the search; so it
\* ends within W iterations, having made at most W nested checks and at
\* most W such assertions.
C17_SearchBounded ==
    /\ []((pc \in Searches /\ failure = "none") => k \in 0 .. bit_width)
    /\ [][(pc \in Searches /\ failure' = "none") =>
            \/ /\ pc' = "idle"
               /\ nested_checks' <= nested_checks + 1
               /\ nested_checks' <= bit_width
            \/ /\ pc' = pc /\ k >= 1 /\ k' = k - 1
               /\ nested_checks' <= nested_checks + 1
               /\ nested_checks' <= bit_width - k'
               /\ Cardinality(SearchBits') <= bit_width - k'
               /\ SearchBits \subseteq SearchBits'
               /\ Cardinality(SearchBits') <= Cardinality(SearchBits) + 1]_vars

\* A search of width 2 has ended after two nested checks.
C17_Witness ==
    Returned(Searches) /\ ret.ok /\ bit_width = 2 /\ nested_checks = 2

\* C18: a search returns failure exactly when one of its nested checks was
\* inconclusive; the step with that check ends the search, with that one
\* check and with the assertions in force as before the iteration.
C18_FailureIffUnknown ==
    /\ [](Returned(Searches) => (ret.ok <=> ~ saw_unknown))
    /\ [][(pc \in Searches /\ failure' = "none" /\ saw_unknown') =>
            /\ pc' = "idle"
            /\ ~ ret'.ok
            /\ nested_checks' = nested_checks + 1
            /\ supplied' = supplied
            /\ s'.frames = s.frames]_vars

\* A search has returned failure after an inconclusive second nested check.
C18_Witness ==
    Returned(Searches) /\ ~ ret.ok /\ saw_unknown /\ nested_checks = 2

\* C19: an add_* call leaves the cache entry of the current level invalid
\* and the scope level, the number of cache frames and the entries of the
\* lower levels as they were; a model() made at that level afterwards
\* returns a value that satisfies the assertion.
C19_AddInvalidatesCache ==
    /\ [][(call'.op \in AddCalls /\ failure' = "none") =>
            /\ m_scope_level' = m_scope_level
            /\ Len(model_cache') = Len(model_cache)
            /\ model_cache'[Len(model_cache')] = Invalid
            /\ \A i \in 1 .. Len(model_cache) - 1 :
                 model_cache'[i] = model_cache[i]]_vars
    /\ []((Returned({"model"}) /\ InForce(s) # {}) =>
            ret.val \in Models(bit_width, s))

\* At level 1, entered with a cached value, an add_* has excluded that
\* value and a later model() has returned another one.
C19_Witness ==
    /\ Returned({"model"}) /\ InForce(s) # {}
    /\ m_scope_level = 1 /\ Len(model_cache) = 2
    /\ model_cache[1] >= 0
    /\ model_cache[1] \notin Models(bit_width, s)
    /\ ret.val = model_cache[2]

====
